---- MODULE Spec2Model ----
(*
  A model of the three schedulers of dom-batch / fastdom:

    variant "fastdom"   src/lib/fastdom.js     id-based jobs, mode/pending, defer
    variant "dombatch"  src/lib/dom-batch.js   function queues, mode/pending
    variant "tasks"     src/unnamed/part_000   task objects, scheduled flags, sandbox

  The host is the animation-frame primitive: rafQueue holds the callbacks
  registered for the next frame, Tick starts a frame by moving them to
  tickList, and the callbacks are then run one by one in registration order.

  A job callback is arbitrary caller code.  While it executes (cur # 0) it may
  call the public operations, exactly as the main program may between frames;
  _frame is therefore cut at the points where it hands control to a callback.
*)
EXTENDS Integers, Sequences, FiniteSets, TLC

\* ------------------------------------------------------------------ bounds
MaxId == 3              \* at most this many jobs are created (fastdom.js)
MaxFrame == 2           \* at most this many animation frames fire
MaxDefer == 2           \* largest frame count passed to defer
NumSandboxes == 2       \* number of Sandbox objects created (part_000)
MaxTask == 2            \* tasks submitted to the scheduler of part_000

VARIABLES
  variant,      \* which of the three source files is being run
  \* ---- src/lib/fastdom.js
  lastId,       \* this.lastId
  jobs,         \* this.jobs: id -> [type, fn, timer]
  mode,         \* this.mode: "null" | "reading" | "writing"
  pending,      \* this.pending
  queue,        \* this.queue: [read |-> Seq(id), write |-> Seq(id)]
  onError,      \* TRUE iff a this.onError handler is registered
  frames,       \* the `frames` variable closed over by each defer job's `wrapped`
  \* ---- src/lib/dom-batch.js and src/unnamed/part_000
  reads,        \* this.reads
  writes,       \* this.writes
  \* ---- src/unnamed/part_000
  scheduled,    \* fastdom.scheduled
  scheduledRead,\* fastdom.scheduledRead
  catchFn,      \* TRUE iff a fastdom.catch function is defined
  sandbox,      \* the Sandbox objects: s -> [reads |-> Seq(task), writes |-> Seq(task)]
  timers,       \* number of outstanding setTimeout(fastdom._flushReads, 0)
  handler,      \* the host callback that is executing: "none", "_flush", "_flushReads"
  taskList,     \* the list _flushList is flushing: "reads" or "writes"
  errs,         \* the `error` of each _flushList activation that caught one
  \* ---- host
  rafQueue,     \* callbacks registered with raf, not yet in a frame
  tickList,     \* callbacks of the frame being dispatched, not yet run
  frameNo,      \* number of frames dispatched so far
  cur,          \* id of the job whose callback is executing, 0 if none
  ret,          \* value the last read/write/defer call of this turn returned (0: undefined)
  \* ---- observations
  born,         \* id -> [frame, mode, by, type, arg, req, pending, sb]: how the job
                \* was submitted
  log,          \* callbacks invoked so far: Seq([id, frame, mode])
  errors,       \* ids of the jobs whose failure was handed to onError, in order
  escaped,      \* ids whose failure left the scheduler (to the caller or the host)
  dropped,      \* ids whose failure was swallowed
  thrown,       \* ids of the callbacks that threw
  cancelled     \* [id, by, all]: job `by` (0: the main program) passed id to
                \* clear() while it was still queued, or (all) called a
                \* sandbox's clear() while id, a job of the sandbox, was queued

fdVars == <<lastId, jobs, mode, pending, queue, onError, frames>>
dbVars == <<reads, writes>>
tkVars == <<scheduled, scheduledRead, catchFn, sandbox, timers, handler, taskList, errs>>
hostVars == <<rafQueue, tickList, frameNo, cur, ret>>
obsVars == <<born, log, errors, escaped, dropped, thrown, cancelled>>
vars == <<variant, fdVars, dbVars, tkVars, hostVars, obsVars>>

\* ------------------------------------------------------------ JS values
Num(n) == [t |-> "num", v |-> n]
FnArg == [t |-> "fn",  v |-> 0]     \* a function passed where a number is expected
NaN == [t |-> "nan", v |-> 0]

\* ToNumber of a number is itself, of a function object is NaN
ToNumber(a) == IF a.t = "num" THEN a ELSE NaN
\* the guard written as frames < -1
LtMinusOne(a) == ToNumber(a).t = "num" /\ ToNumber(a).v < -1

\* a < 0
LtZero(a) == ToNumber(a).t = "num" /\ ToNumber(a).v < 0
\* the test written as frames-- === 1
IsOne(a) == ToNumber(a).t = "num" /\ ToNumber(a).v = 1

\* a === 0 (strict equality, evaluated on the value a-- yields)
IsZero(a) == ToNumber(a).t = "num" /\ ToNumber(a).v = 0
\* the test written without the decrement
NoDecrement(a) == ToNumber(a)

\* the counter decremented twice per call of wrapped
DecrementTwice(a) == IF ToNumber(a).t = "num" THEN Num(ToNumber(a).v - 2) ELSE NaN

\* the value a holds after a--
Decrement(a) == IF ToNumber(a).t = "num" THEN Num(ToNumber(a).v - 1) ELSE NaN

DeferArgs == {Num(n) : n \in -1..MaxDefer} \cup {FnArg}

\* ------------------------------------------------------------ helpers
FrameCb == [cb |-> "frame", id |-> 0]
FlushCb == [cb |-> "flush", id |-> 0]
WrappedCb(id) == [cb |-> "wrapped", id |-> id]

\* list.indexOf(x): 1-based position of the first x, 0 when absent
IndexOf(list, x) ==
  IF \E i \in 1..Len(list) : list[i] = x
  THEN CHOOSE i \in 1..Len(list) : list[i] = x /\ \A j \in 1..(i-1) : list[j] # x
  ELSE 0

\* a splice that removes nothing
SpliceNone(list, i) == list

\* list.splice(i, 1) for a 1-based i
Splice1(list, i) == [k \in 1..(Len(list)-1) |-> IF k < i THEN list[k] ELSE list[k+1]]

\* delete obj[id]
Delete(obj, id) == [k \in DOMAIN obj \ {id} |-> obj[k]]

\* caf that drops the first outstanding callback, whatever its handle
cafHead(list, id) == IF list = <<>> THEN list ELSE Tail(list)

\* caf(handle): the outstanding frame callback of defer job id, if any, is dropped
caf(list, id) == SelectSeq(list, LAMBDA c : c # WrappedCb(id))

\* a public operation can be called by the main program between frames,
\* or by the job callback that is executing
Turn == tickList = <<>> \/ cur # 0

Range(s) == {s[i] : i \in 1..Len(s)}


\* =================================================== src/lib/fastdom.js

Empty == [k \in {} |-> 0]

InitFastDom ==
  /\ variant = "fastdom"
  /\ lastId = 0
  /\ jobs = Empty
  /\ mode = "null"
  /\ pending = FALSE
  /\ queue = [read |-> <<>>, write |-> <<>>]
  /\ onError \in BOOLEAN
  /\ frames = Empty
  /\ rafQueue = <<>>
  /\ tickList = <<>>
  /\ frameNo = 0
  /\ cur = 0
  /\ ret = 0
  /\ born = Empty
  /\ log = <<>>
  /\ errors = <<>>
  /\ escaped = {}
  /\ dropped = {}
  /\ thrown = {}
  /\ cancelled = {}
  /\ reads = <<>>
  /\ writes = <<>>
  /\ scheduled = FALSE
  /\ scheduledRead = FALSE
  /\ catchFn = FALSE
  /\ sandbox = Empty
  /\ timers = 0
  /\ handler = "none"
  /\ taskList = "reads"
  /\ errs = <<>>

\* this.jobs[id] = {id, fn, ctx, type}; fn is the callback's identity (the
\* id of the call that supplied it), 0 when fn is undefined
_add(js, id, type, fn) ==
  [k \in DOMAIN js \cup {id} |->
     IF k = id THEN [type |-> type, fn |-> fn, timer |-> 0] ELSE js[k]]

\* the record of a submission: the frame and mode it was made in, the job
\* whose callback made it (0: the main program), whether a frame callback
\* was outstanding before it and whether it requested one
Born(id, type, arg, req) ==
  [k \in DOMAIN born \cup {id} |->
     IF k = id
     THEN [frame |-> frameNo, mode |-> mode, by |-> cur, type |-> type, arg |-> arg,
           req |-> req, pending |-> pending, sb |-> 0]
     ELSE born[k]]

\* _request without `if (this.pending) return`
_requestNoPendingTest(type) ==
  IF \/ (mode = "writing" /\ type = "write")
     \/ (mode = "reading" /\ type = "read")
     \/ (mode = "reading" /\ type = "write")
  THEN UNCHANGED <<pending, rafQueue>>
  ELSE /\ rafQueue' = Append(rafQueue, FrameCb)
       /\ pending' = TRUE

\* The decision whether a frame has to be scheduled
_request(type) ==
  IF \/ (mode = "writing" /\ type = "write")
     \/ (mode = "reading" /\ type = "read")
     \/ (mode = "reading" /\ type = "write")
     \/ pending
  THEN UNCHANGED <<pending, rafQueue>>
  ELSE /\ rafQueue' = Append(rafQueue, FrameCb)
       /\ pending' = TRUE

read ==
  /\ variant = "fastdom" /\ Turn
  /\ lastId < MaxId
  /\ LET id == lastId + 1 IN
       /\ lastId' = id
       /\ jobs' = _add(jobs, id, "read", id)
       /\ queue' = [queue EXCEPT !.read = Append(@, id)]
       /\ _request("read")
       /\ ret' = id
       /\ born' = Born(id, "read", Num(0), rafQueue' # rafQueue)
  /\ UNCHANGED <<variant, dbVars, tkVars, mode, onError, frames, tickList, frameNo, cur,
                 log, errors, escaped, dropped, thrown, cancelled>>

write ==
  /\ variant = "fastdom" /\ Turn
  /\ lastId < MaxId
  /\ LET id == lastId + 1 IN
       /\ lastId' = id
       /\ jobs' = _add(jobs, id, "write", id)
       /\ queue' = [queue EXCEPT !.write = Append(@, id)]
       /\ _request("write")
       /\ ret' = id
       /\ born' = Born(id, "write", Num(0), rafQueue' # rafQueue)
  /\ UNCHANGED <<variant, dbVars, tkVars, mode, onError, frames, tickList, frameNo, cur,
                 log, errors, escaped, dropped, thrown, cancelled>>

\* clear() taking the branch of the defer jobs for every type of job
clearAsDefer(id) ==
  /\ variant = "fastdom" /\ Turn
  /\ IF id \notin DOMAIN jobs
     THEN UNCHANGED <<rafQueue, tickList, cancelled>>
     ELSE /\ rafQueue' = IF jobs[id].timer = 0 THEN rafQueue ELSE caf(rafQueue, id)
          /\ tickList' = IF jobs[id].timer = 0 THEN tickList ELSE caf(tickList, id)
          /\ cancelled' = IF \/ WrappedCb(id) \in Range(rafQueue) \cup Range(tickList)
                             \/ id \in Range(queue.read) \cup Range(queue.write)
                          THEN cancelled \cup {[id |-> id, by |-> cur, all |-> FALSE]} ELSE cancelled
  /\ UNCHANGED <<variant, dbVars, tkVars, lastId, jobs, queue, mode, pending, onError, frames, frameNo,
                 cur, ret, born, log, errors, escaped, dropped, thrown>>

clear(id) ==
  /\ variant = "fastdom" /\ Turn
  /\ IF id \notin DOMAIN jobs
     THEN UNCHANGED <<jobs, queue, rafQueue, tickList, cancelled>>
     ELSE IF jobs[id].type = "defer"
     THEN \* caf(job.timer); the job stays in this.jobs
          /\ rafQueue' = IF jobs[id].timer = 0 THEN rafQueue ELSE caf(rafQueue, id)
          /\ tickList' = IF jobs[id].timer = 0 THEN tickList ELSE caf(tickList, id)
          /\ cancelled' = IF WrappedCb(id) \in Range(rafQueue) \cup Range(tickList)
                          THEN cancelled \cup {[id |-> id, by |-> cur, all |-> FALSE]} ELSE cancelled
          /\ UNCHANGED <<jobs, queue>>
     ELSE LET list == queue[jobs[id].type]
              index == IndexOf(list, id)
          IN /\ queue' = IF index # 0
                         THEN [queue EXCEPT ![jobs[id].type] = Splice1(list, index)]
                         ELSE queue
             /\ jobs' = Delete(jobs, id)
             /\ cancelled' = IF index # 0
                             THEN cancelled \cup {[id |-> id, by |-> cur, all |-> FALSE]} ELSE cancelled
             /\ UNCHANGED <<rafQueue, tickList>>
  /\ UNCHANGED <<variant, dbVars, tkVars, lastId, mode, pending, onError, frames, frameNo, cur, ret,
                 born, log, errors, escaped, dropped, thrown>>

\* _run(list) from the head of its while loop, inside _frame in mode m, with
\* registry js, queues q and invocation log lg: shift the next id and call
\* its fn, or, the list being empty, go on with the rest of _frame.
_run(m, js, q, lg) ==
  LET list == IF m = "reading" /\ q.read # <<>> THEN "read" ELSE "write"
      m2 == IF list = "read" THEN "reading" ELSE "writing"
  IN IF q[list] # <<>>
     THEN LET id == Head(q[list]) IN
          /\ queue' = [q EXCEPT ![list] = Tail(@)]
          /\ IF id \in DOMAIN js
             THEN /\ jobs' = Delete(js, id)
                  /\ mode' = m2
                  /\ cur' = id
                  /\ log' = Append(lg, [id |-> js[id].fn, frame |-> frameNo, mode |-> m2])
                  /\ UNCHANGED <<tickList, escaped>>
             ELSE \* job is undefined: job.ctx raises a TypeError outside the try
                  /\ jobs' = js
                  /\ mode' = m2
                  /\ cur' = 0
                  /\ log' = lg
                  /\ tickList' = Tail(tickList)
                  /\ escaped' = escaped \cup {id}
     ELSE /\ queue' = q
          /\ jobs' = js
          /\ mode' = "null"
          /\ cur' = 0
          /\ log' = lg
          /\ tickList' = Tail(tickList)
          /\ UNCHANGED escaped

\* _frame emptying the write queue first and leaving the reads behind
_frameWritesFirst ==
  /\ variant = "fastdom"
  /\ tickList # <<>> /\ cur = 0
  /\ Head(tickList) = FrameCb
  /\ pending' = FALSE
  /\ _run("writing", jobs, queue, log)
  /\ ret' = 0
  /\ UNCHANGED <<variant, dbVars, tkVars, lastId, onError, frames, rafQueue, frameNo,
                 born, errors, dropped, thrown, cancelled>>

\* the host runs the callback registered by _request
_frame ==
  /\ variant = "fastdom"
  /\ tickList # <<>> /\ cur = 0
  /\ Head(tickList) = FrameCb
  /\ pending' = FALSE
  /\ _run("reading", jobs, queue, log)
  /\ ret' = 0
  /\ UNCHANGED <<variant, dbVars, tkVars, lastId, onError, frames, rafQueue, frameNo,
                 born, errors, dropped, thrown, cancelled>>

\* job.fn.call(ctx) returns normally
fnReturns ==
  /\ variant = "fastdom"
  /\ cur # 0
  /\ _run(mode, jobs, queue, log)
  /\ ret' = 0
  /\ UNCHANGED <<variant, dbVars, tkVars, lastId, pending, onError, frames, rafQueue, frameNo,
                 born, errors, dropped, thrown, cancelled>>

\* catch (e) { if (this.onError) this.onError(e); }
catch(id) ==
  /\ errors' = IF onError THEN Append(errors, id) ELSE errors
  /\ dropped' = IF onError THEN dropped ELSE dropped \cup {id}

\* job.fn.call(ctx) throws and _run has no try: the failure leaves _frame
fnThrowsUncaught ==
  /\ variant = "fastdom"
  /\ cur # 0
  /\ thrown' = thrown \cup {cur}
  /\ escaped' = escaped \cup {cur}
  /\ cur' = 0
  /\ tickList' = Tail(tickList)
  /\ ret' = 0
  /\ UNCHANGED <<variant, dbVars, tkVars, lastId, jobs, mode, pending, queue, onError, frames,
                 rafQueue, frameNo, born, log, errors, dropped, cancelled>>

\* job.fn.call(ctx) throws
fnThrows ==
  /\ variant = "fastdom"
  /\ cur # 0
  /\ thrown' = thrown \cup {cur}
  /\ catch(cur)
  /\ _run(mode, jobs, queue, log)
  /\ ret' = 0
  /\ UNCHANGED <<variant, dbVars, tkVars, lastId, pending, onError, frames, rafQueue, frameNo,
                 born, cancelled>>

\* defer(frames, fn, ctx); throws tells whether fn, if it is called
\* synchronously, throws.  A deferred fn makes no calls of its own.
defer(a, throws) ==
  /\ variant = "fastdom" /\ Turn
  /\ IF LtZero(a)
     THEN /\ ~throws
          /\ ret' = 0
          /\ UNCHANGED <<lastId, jobs, mode, queue, frames, rafQueue, tickList, cur,
                         born, log, errors, escaped, dropped, thrown>>
     ELSE /\ lastId < MaxId
          /\ LET id == lastId + 1
                 fn == IF a.t = "fn" THEN 0 ELSE id
                 js == _add(jobs, id, "defer", fn)
                 lg == Append(log, [id |-> fn, frame |-> frameNo, mode |-> "sync"])
             IN /\ lastId' = id
                /\ born' = Born(id, "defer", a, FALSE)
                /\ thrown' = IF throws
                             THEN thrown \cup {id} \cup (IF cur # 0 THEN {cur} ELSE {})
                             ELSE thrown
                /\ frames' = [k \in DOMAIN frames \cup {id} |->
                                IF k = id THEN Decrement(a) ELSE frames[k]]
                /\ IF IsZero(a)
                   THEN \* wrapped() calls fn before defer returns
                        IF ~throws
                        THEN /\ jobs' = js
                             /\ log' = lg
                             /\ ret' = id
                             /\ UNCHANGED <<mode, queue, rafQueue, tickList, cur,
                                            errors, escaped, dropped>>
                        ELSE \* catch: `this` is undefined in wrapped, so reading
                             \* this.onError raises a TypeError that leaves defer
                             IF cur = 0
                             THEN /\ jobs' = js
                                  /\ log' = lg
                                  /\ ret' = 0
                                  /\ escaped' = escaped \cup {id}
                                  /\ UNCHANGED <<mode, queue, rafQueue, tickList, cur,
                                                 errors, dropped>>
                             ELSE \* it ends the calling job, in _run's try
                                  /\ catch(cur)
                                  /\ _run(mode, js, queue, lg)
                                  /\ ret' = 0
                                  /\ UNCHANGED rafQueue
                   ELSE /\ ~throws
                        /\ jobs' = [js EXCEPT ![id].timer = id]
                        /\ rafQueue' = Append(rafQueue, WrappedCb(id))
                        /\ ret' = id
                        /\ UNCHANGED <<mode, queue, tickList, cur, log,
                                       errors, escaped, dropped>>
  /\ UNCHANGED <<variant, dbVars, tkVars, pending, onError, frameNo, cancelled>>

\* the host runs a defer job's `wrapped`, with `this` undefined
wrapped(throws) ==
  /\ variant = "fastdom"
  /\ tickList # <<>> /\ cur = 0
  /\ Head(tickList).cb = "wrapped"
  /\ LET id == Head(tickList).id IN
       /\ frames' = [frames EXCEPT ![id] = Decrement(@)]
       /\ IF IsZero(frames[id])
          THEN /\ log' = Append(log, [id |-> jobs[id].fn, frame |-> frameNo, mode |-> "defer"])
               /\ escaped' = IF throws THEN escaped \cup {id} ELSE escaped
               /\ thrown' = IF throws THEN thrown \cup {id} ELSE thrown
               /\ UNCHANGED <<jobs, rafQueue>>
          ELSE /\ ~throws
               /\ rafQueue' = Append(rafQueue, WrappedCb(id))
               /\ jobs' = [jobs EXCEPT ![id].timer = id]
               /\ UNCHANGED <<log, escaped, thrown>>
  /\ tickList' = Tail(tickList)
  /\ ret' = 0
  /\ UNCHANGED <<variant, dbVars, tkVars, lastId, mode, pending, queue, onError, frameNo, cur,
                 born, errors, dropped, cancelled>>

\* the next animation frame starts: the host takes the registered callbacks
Tick ==
  /\ tickList = <<>> /\ cur = 0
  /\ rafQueue # <<>>
  /\ frameNo < MaxFrame
  /\ tickList' = rafQueue
  /\ rafQueue' = <<>>
  /\ frameNo' = frameNo + 1
  /\ ret' = 0
  /\ UNCHANGED <<variant, dbVars, tkVars, fdVars, cur, obsVars>>

NextFastDom ==
  \/ read
  \/ write
  \/ \E id \in 1..MaxId : clear(id)
  \/ \E a \in DeferArgs, t \in BOOLEAN : defer(a, t)
  \/ _frame
  \/ fnReturns
  \/ fnThrows
  \/ \E t \in BOOLEAN : wrapped(t)
  \/ Tick

SpecFastDom == InitFastDom /\ [][NextFastDom]_vars

TypeOK ==
  /\ variant \in {"fastdom", "dombatch", "tasks"}
  /\ lastId \in 0..MaxId
  /\ mode \in {"null", "reading", "writing"}
  /\ pending \in BOOLEAN
  /\ DOMAIN jobs \subseteq 1..lastId
  /\ DOMAIN born \subseteq 1..(MaxId + MaxTask)
  /\ cur \in 0..(MaxId + MaxTask)
  /\ frameNo \in 0..MaxFrame


\* ================================================= src/lib/dom-batch.js
\* A job is the function itself.  Every call submits a function of its own,
\* numbered in the order of the calls.

InitDomBatch ==
  /\ variant = "dombatch"
  /\ reads = <<>>
  /\ writes = <<>>
  /\ mode = "null"
  /\ pending = FALSE
  /\ rafQueue = <<>>
  /\ tickList = <<>>
  /\ frameNo = 0
  /\ cur = 0
  /\ ret = 0
  /\ born = Empty
  /\ log = <<>>
  /\ escaped = {}
  /\ thrown = {}
  /\ cancelled = {}
  /\ lastId = 0
  /\ jobs = Empty
  /\ queue = [read |-> <<>>, write |-> <<>>]
  /\ onError = FALSE
  /\ frames = Empty
  /\ errors = <<>>
  /\ dropped = {}
  /\ scheduled = FALSE
  /\ scheduledRead = FALSE
  /\ catchFn = FALSE
  /\ sandbox = Empty
  /\ timers = 0
  /\ handler = "none"
  /\ taskList = "reads"
  /\ errs = <<>>

\* what dom-batch.js never touches
notDomBatch == <<lastId, jobs, queue, onError, frames, errors, dropped, tkVars>>

NewFn == Cardinality(DOMAIN born) + 1

\* The decision whether a frame has to be scheduled
request(type) ==
  IF \/ (mode = "writing" /\ type = "write")
     \/ (mode = "reading" /\ type = "read")
     \/ (mode = "reading" /\ type = "write")
     \/ pending
  THEN UNCHANGED <<pending, rafQueue>>
  ELSE /\ rafQueue' = Append(rafQueue, FrameCb)
       /\ pending' = TRUE

DomBatch_read ==
  /\ variant = "dombatch" /\ Turn
  /\ NewFn <= MaxId
  /\ reads' = Append(reads, NewFn)
  /\ request("read")
  /\ born' = Born(NewFn, "read", Num(0), rafQueue' # rafQueue)
  /\ UNCHANGED <<variant, notDomBatch, writes, mode, tickList, frameNo, cur, ret,
                 log, escaped, thrown, cancelled>>

DomBatch_write ==
  /\ variant = "dombatch" /\ Turn
  /\ NewFn <= MaxId
  /\ writes' = Append(writes, NewFn)
  /\ request("write")
  /\ born' = Born(NewFn, "write", Num(0), rafQueue' # rafQueue)
  /\ UNCHANGED <<variant, notDomBatch, reads, mode, tickList, frameNo, cur, ret,
                 log, escaped, thrown, cancelled>>

\* remove(array, item)
remove(array, item) ==
  IF IndexOf(array, item) # 0 THEN Splice1(array, IndexOf(array, item)) ELSE array

clearRead(fn) ==
  /\ variant = "dombatch" /\ Turn
  /\ reads' = remove(reads, fn)
  /\ cancelled' = IF IndexOf(reads, fn) # 0
                  THEN cancelled \cup {[id |-> fn, by |-> cur, all |-> FALSE]} ELSE cancelled
  /\ UNCHANGED <<variant, notDomBatch, writes, mode, pending, hostVars,
                 born, log, escaped, thrown>>

clearWrite(fn) ==
  /\ variant = "dombatch" /\ Turn
  /\ writes' = remove(writes, fn)
  /\ cancelled' = IF IndexOf(writes, fn) # 0
                  THEN cancelled \cup {[id |-> fn, by |-> cur, all |-> FALSE]} ELSE cancelled
  /\ UNCHANGED <<variant, notDomBatch, reads, mode, pending, hostVars,
                 born, log, escaped, thrown>>

\* run(list) from the head of its while loop, inside frame in mode m: shift
\* the next function and call it, or, the list being empty, go on with the
\* rest of frame.
run(m) ==
  IF m = "reading" /\ reads # <<>>
  THEN /\ reads' = Tail(reads)
       /\ mode' = "reading"
       /\ cur' = Head(reads)
       /\ log' = Append(log, [id |-> Head(reads), frame |-> frameNo, mode |-> "reading"])
       /\ UNCHANGED <<writes, tickList>>
  ELSE IF writes # <<>>
  THEN /\ writes' = Tail(writes)
       /\ mode' = "writing"
       /\ cur' = Head(writes)
       /\ log' = Append(log, [id |-> Head(writes), frame |-> frameNo, mode |-> "writing"])
       /\ UNCHANGED <<reads, tickList>>
  ELSE /\ mode' = "null"
       /\ cur' = 0
       /\ tickList' = Tail(tickList)
       /\ UNCHANGED <<reads, writes, log>>

\* the host runs the callback registered by request
frame ==
  /\ variant = "dombatch"
  /\ tickList # <<>> /\ cur = 0
  /\ Head(tickList) = FrameCb
  /\ pending' = FALSE
  /\ run("reading")
  /\ UNCHANGED <<variant, notDomBatch, rafQueue, frameNo, ret,
                 born, escaped, thrown, cancelled>>

\* list.shift().call(this) returns normally
callReturns ==
  /\ variant = "dombatch"
  /\ cur # 0
  /\ run(mode)
  /\ UNCHANGED <<variant, notDomBatch, pending, rafQueue, frameNo, ret,
                 born, escaped, thrown, cancelled>>

\* list.shift().call(this) throws: nothing catches it, it leaves run and
\* frame, and this.mode = null is not reached
callThrows ==
  /\ variant = "dombatch"
  /\ cur # 0
  /\ thrown' = thrown \cup {cur}
  /\ escaped' = escaped \cup {cur}
  /\ cur' = 0
  /\ tickList' = Tail(tickList)
  /\ UNCHANGED <<variant, notDomBatch, reads, writes, mode, pending, rafQueue,
                 frameNo, ret, born, log, cancelled>>

NextDomBatch ==
  \/ DomBatch_read
  \/ DomBatch_write
  \/ \E fn \in 1..MaxId : clearRead(fn)
  \/ \E fn \in 1..MaxId : clearWrite(fn)
  \/ frame
  \/ callReturns
  \/ callThrows
  \/ Tick

SpecDomBatch == InitDomBatch /\ [][NextDomBatch]_vars

\* ================================================ src/unnamed/part_000
\* A task is the object {fn, ctx} that measure or mutate creates; tasks are
\* numbered in the order of their creation.  born[t].sb is the sandbox the
\* task was submitted through (0: directly), whose wrapper is then its fn.

Sandboxes == 1..NumSandboxes

InitTasks ==
  /\ variant = "tasks"
  /\ reads = <<>>
  /\ writes = <<>>
  /\ scheduled = FALSE
  /\ scheduledRead = FALSE
  /\ catchFn \in BOOLEAN
  /\ sandbox = [s \in Sandboxes |-> [reads |-> <<>>, writes |-> <<>>]]
  /\ timers = 0
  /\ handler = "none"
  /\ taskList = "reads"
  /\ errs = <<>>
  /\ rafQueue = <<>>
  /\ tickList = <<>>
  /\ frameNo = 0
  /\ cur = 0
  /\ ret = 0
  /\ born = Empty
  /\ log = <<>>
  /\ errors = <<>>
  /\ escaped = {}
  /\ dropped = {}
  /\ thrown = {}
  /\ cancelled = {}
  /\ lastId = 0
  /\ jobs = Empty
  /\ mode = "null"
  /\ pending = FALSE
  /\ queue = [read |-> <<>>, write |-> <<>>]
  /\ onError = FALSE
  /\ frames = Empty

\* what part_000 never touches
notTasks == <<lastId, jobs, mode, pending, queue, onError, frames, catchFn, ret, frameNo>>

BornTask(t, type, s) ==
  [k \in DOMAIN born \cup {t} |->
     IF k = t
     THEN [frame |-> frameNo,
           mode |-> IF cur = 0 THEN "null"
                    ELSE IF taskList = "reads" THEN "reading" ELSE "writing",
           by |-> cur, type |-> type, arg |-> Num(0),
           req |-> rafQueue' # rafQueue, pending |-> scheduled, sb |-> s]
     ELSE born[k]]

\* Schedules a new read/write batch if one isn't pending
scheduleFlush ==
  IF scheduled
  THEN UNCHANGED <<scheduled, rafQueue>>
  ELSE /\ scheduled' = TRUE
       /\ rafQueue' = Append(rafQueue, FlushCb)

\* Schedules a new read batch if one isn't pending
scheduleReadFlush ==
  IF scheduledRead
  THEN UNCHANGED <<scheduledRead, timers, scheduled, rafQueue>>
  ELSE /\ scheduledRead' = TRUE
       /\ timers' = timers + 1
       /\ scheduleFlush

\* FastDom.prototype.measure
measure ==
  /\ variant = "tasks" /\ Turn
  /\ NewFn <= MaxTask
  /\ reads' = Append(reads, NewFn)
  /\ scheduleReadFlush
  /\ born' = BornTask(NewFn, "read", 0)
  /\ UNCHANGED <<variant, notTasks, writes, sandbox, handler, taskList, errs,
                 tickList, cur, log, errors, escaped, dropped, thrown, cancelled>>

\* FastDom.prototype.mutate
mutate ==
  /\ variant = "tasks" /\ Turn
  /\ NewFn <= MaxTask
  /\ writes' = Append(writes, NewFn)
  /\ scheduleFlush
  /\ born' = BornTask(NewFn, "write", 0)
  /\ UNCHANGED <<variant, notTasks, reads, scheduledRead, timers, sandbox, handler,
                 taskList, errs, tickList, cur, log, errors, escaped, dropped,
                 thrown, cancelled>>

\* clear without the ~ tests: splice(-1, 1) takes the last task off
clearTaskUnchecked(rs, ws, t) ==
  IF IndexOf(rs, t) # 0
  THEN [reads |-> Splice1(rs, IndexOf(rs, t)), writes |-> ws]
  ELSE [reads |-> SubSeq(rs, 1, Len(rs) - 1),
        writes |-> IF IndexOf(ws, t) # 0 THEN Splice1(ws, IndexOf(ws, t))
                   ELSE SubSeq(ws, 1, Len(ws) - 1)]

\* the lists after FastDom.prototype.clear(task); t = 0 is undefined
clearTask(rs, ws, t) ==
  IF IndexOf(rs, t) # 0
  THEN [reads |-> Splice1(rs, IndexOf(rs, t)), writes |-> ws]
  ELSE IF IndexOf(ws, t) # 0
  THEN [reads |-> rs, writes |-> Splice1(ws, IndexOf(ws, t))]
  ELSE [reads |-> rs, writes |-> ws]

Queued(t) == t \in Range(reads) \cup Range(writes)

\* FastDom.prototype.clear
FastDom_clear(t) ==
  /\ variant = "tasks" /\ Turn
  /\ reads' = clearTask(reads, writes, t).reads
  /\ writes' = clearTask(reads, writes, t).writes
  /\ cancelled' = IF Queued(t)
                  THEN cancelled \cup {[id |-> t, by |-> cur, all |-> FALSE]}
                  ELSE cancelled
  /\ UNCHANGED <<variant, notTasks, scheduled, scheduledRead, timers, sandbox, handler,
                 taskList, errs, rafQueue, tickList, cur, born, log, errors, escaped,
                 dropped, thrown>>

\* Sandbox.prototype.measure: the task of the wrapper is pushed on the
\* sandbox's reads
Sandbox_measure(s) ==
  /\ variant = "tasks" /\ Turn
  /\ NewFn <= MaxTask
  /\ reads' = Append(reads, NewFn)
  /\ scheduleReadFlush
  /\ sandbox' = [sandbox EXCEPT ![s].reads = Append(@, NewFn)]
  /\ born' = BornTask(NewFn, "read", s)
  /\ UNCHANGED <<variant, notTasks, writes, handler, taskList, errs,
                 tickList, cur, log, errors, escaped, dropped, thrown, cancelled>>

\* Sandbox.prototype.mutate
Sandbox_mutate(s) ==
  /\ variant = "tasks" /\ Turn
  /\ NewFn <= MaxTask
  /\ writes' = Append(writes, NewFn)
  /\ scheduleFlush
  /\ sandbox' = [sandbox EXCEPT ![s].writes = Append(@, NewFn)]
  /\ born' = BornTask(NewFn, "write", s)
  /\ UNCHANGED <<variant, notTasks, reads, scheduledRead, timers, handler,
                 taskList, errs, tickList, cur, log, errors, escaped, dropped,
                 thrown, cancelled>>

\* clearAll(fastdom, tasks) from the head of its for loop with counter i
\* (0-based) and bound l, on st = [reads, writes, tasks]
RECURSIVE clearAll(_, _, _)
clearAll(i, l, st) ==
  IF i >= l
  THEN st
  ELSE LET t == IF i < Len(st.tasks) THEN st.tasks[i + 1] ELSE 0
           cleared == clearTask(st.reads, st.writes, t)
       IN clearAll(i + 1, l,
                   [reads |-> cleared.reads, writes |-> cleared.writes,
                    tasks |-> IF i < Len(st.tasks)
                              THEN Splice1(st.tasks, i + 1) ELSE st.tasks])

\* Sandbox.prototype.clear; t = 0: no task is passed
Sandbox_clear(s, t) ==
  /\ variant = "tasks" /\ Turn
  /\ IF t # 0
     THEN /\ reads' = clearTask(reads, writes, t).reads
          /\ writes' = clearTask(reads, writes, t).writes
          /\ cancelled' = IF Queued(t)
                          THEN cancelled \cup {[id |-> t, by |-> cur, all |-> FALSE]}
                          ELSE cancelled
          /\ UNCHANGED sandbox
     ELSE LET w == clearAll(0, Len(sandbox[s].writes),
                            [reads |-> reads, writes |-> writes,
                             tasks |-> sandbox[s].writes])
              r == clearAll(0, Len(sandbox[s].reads),
                            [reads |-> w.reads, writes |-> w.writes,
                             tasks |-> sandbox[s].reads])
          IN /\ reads' = r.reads
             /\ writes' = r.writes
             /\ sandbox' = [sandbox EXCEPT ![s] = [reads |-> r.tasks, writes |-> w.tasks]]
             /\ cancelled' = cancelled \cup
                  {[id |-> k, by |-> cur, all |-> TRUE] :
                     k \in {k \in DOMAIN born : born[k].sb = s /\ Queued(k)}}
  /\ UNCHANGED <<variant, notTasks, scheduled, scheduledRead, timers, handler,
                 taskList, errs, rafQueue, tickList, cur, born, log, errors, escaped,
                 dropped, thrown>>

\* array.splice(array.indexOf(task)): from the task's position to the end;
\* indexOf gives -1 for a task that is not there, and splice(-1) takes the
\* last element off
SpliceFrom(array, t) ==
  IF IndexOf(array, t) # 0
  THEN SubSeq(array, 1, IndexOf(array, t) - 1)
  ELSE SubSeq(array, 1, Len(array) - 1)

\* the first statement of a sandbox's wrapper, run when task t is called
Wrapper(t) ==
  IF born[t].sb = 0
  THEN sandbox
  ELSE IF born[t].type = "read"
  THEN [sandbox EXCEPT ![born[t].sb].reads = SpliceFrom(@, t)]
  ELSE [sandbox EXCEPT ![born[t].sb].writes = SpliceFrom(@, t)]

\* runTasks shifts the next task of list l and calls its fn, inside host
\* callback h, with es the errors _flushList has caught so far and er the
\* errors handed to fastdom.catch; reset: _flushList has passed its
\* this.scheduled = false; this.scheduledRead = false
Invoke(l, es, h, er, reset) ==
  LET t == IF l = "reads" THEN Head(reads) ELSE Head(writes) IN
  /\ reads' = IF l = "reads" THEN Tail(reads) ELSE reads
  /\ writes' = IF l = "writes" THEN Tail(writes) ELSE writes
  /\ cur' = t
  /\ log' = Append(log, [id |-> t, frame |-> frameNo,
                         mode |-> IF l = "reads" THEN "reading" ELSE "writing"])
  /\ sandbox' = Wrapper(t)
  /\ handler' = h
  /\ taskList' = l
  /\ errs' = es
  /\ errors' = er
  /\ scheduled' = IF reset THEN FALSE ELSE scheduled
  /\ scheduledRead' = IF reset THEN FALSE ELSE scheduledRead
  /\ UNCHANGED <<tickList, escaped, dropped>>

\* host callback h returns normally
Finish(h, er) ==
  /\ cur' = 0
  /\ handler' = "none"
  /\ taskList' = "reads"
  /\ errs' = <<>>
  /\ errors' = er
  /\ scheduled' = FALSE
  /\ scheduledRead' = FALSE
  /\ tickList' = IF h = "_flush" THEN Tail(tickList) ELSE tickList
  /\ UNCHANGED <<reads, writes, sandbox, log, escaped, dropped>>

\* `throw error`: the innermost _flushList that caught an error rethrows
\* it; it passes through the activations that called it, whose own errors
\* are lost, and leaves host callback h
Abort(h, es) ==
  /\ cur' = 0
  /\ handler' = "none"
  /\ taskList' = "reads"
  /\ errs' = <<>>
  /\ escaped' = escaped \cup {es[Len(es)]}
  /\ dropped' = dropped \cup (Range(es) \ {es[Len(es)]})
  /\ scheduled' = FALSE
  /\ scheduledRead' = FALSE
  /\ tickList' = IF h = "_flush" THEN Tail(tickList) ELSE tickList
  /\ UNCHANGED <<reads, writes, sandbox, log, errors>>

Reverse(seq) == [i \in 1..Len(seq) |-> seq[Len(seq) + 1 - i]]

\* _flush after this._flushReads(): this._flushList(this.writes)
flushWrites(h, er) ==
  IF writes # <<>> THEN Invoke("writes", <<>>, h, er, TRUE) ELSE Finish(h, er)

\* _flushList once its list is empty: every activation that caught an error
\* hands it to fastdom.catch, innermost first, or the innermost throws
unwind(l, es, h) ==
  IF es = <<>> \/ catchFn
  THEN IF l = "reads" /\ h = "_flush"
       THEN flushWrites(h, errors \o Reverse(es))
       ELSE Finish(h, errors \o Reverse(es))
  ELSE Abort(h, es)

\* the host runs fastdom._flush, registered by scheduleFlush
_flush ==
  /\ variant = "tasks"
  /\ tickList # <<>> /\ cur = 0
  /\ Head(tickList) = FlushCb
  /\ IF reads # <<>>
     THEN Invoke("reads", <<>>, "_flush", errors, FALSE)
     ELSE flushWrites("_flush", errors)
  /\ UNCHANGED <<variant, notTasks, timers, rafQueue, born, thrown, cancelled>>

\* the host runs fastdom._flushReads, registered with setTimeout
_flushReads ==
  /\ variant = "tasks"
  /\ tickList = <<>> /\ cur = 0
  /\ timers > 0
  /\ timers' = timers - 1
  /\ IF reads # <<>>
     THEN Invoke("reads", <<>>, "_flushReads", errors, FALSE)
     ELSE Finish("_flushReads", errors)
  /\ UNCHANGED <<variant, notTasks, rafQueue, born, thrown, cancelled>>

CurrentList == IF taskList = "reads" THEN reads ELSE writes

\* task.fn.call(task.ctx) returns normally: runTasks goes on
taskReturns ==
  /\ variant = "tasks"
  /\ cur # 0
  /\ IF CurrentList # <<>>
     THEN Invoke(taskList, errs, handler, errors, FALSE)
     ELSE unwind(taskList, errs, handler)
  /\ UNCHANGED <<variant, notTasks, timers, rafQueue, born, thrown, cancelled>>

\* task.fn.call(task.ctx) throws: _flushList catches it, resets the flags
\* and, tasks being left, calls itself
taskThrows ==
  /\ variant = "tasks"
  /\ cur # 0
  /\ thrown' = thrown \cup {cur}
  /\ IF CurrentList # <<>>
     THEN Invoke(taskList, Append(errs, cur), handler, errors, TRUE)
     ELSE unwind(taskList, Append(errs, cur), handler)
  /\ UNCHANGED <<variant, notTasks, timers, rafQueue, born, cancelled>>

NextTasks ==
  \/ measure
  \/ mutate
  \/ \E t \in 1..MaxTask : FastDom_clear(t)
  \/ \E s \in Sandboxes : Sandbox_measure(s)
  \/ \E s \in Sandboxes : Sandbox_mutate(s)
  \/ \E s \in Sandboxes, t \in 0..MaxTask : Sandbox_clear(s, t)
  \/ _flush
  \/ _flushReads
  \/ taskReturns
  \/ taskThrows
  \/ Tick

SpecTasks == InitTasks /\ [][NextTasks]_vars

\* ================================= the two schedulers with a frame mode
\* src/lib/fastdom.js and src/lib/dom-batch.js side by side
InitLib == InitFastDom \/ InitDomBatch
NextLib == NextFastDom \/ NextDomBatch
SpecLib == InitLib /\ [][NextLib]_vars

\* ======================================================= all three files
Init == InitFastDom \/ InitDomBatch \/ InitTasks
Next == NextFastDom \/ NextDomBatch \/ NextTasks
Spec == Init /\ [][Next]_vars

\* ================================================== observation helpers

Ids == DOMAIN born
Invoked(id) == \E i \in 1..Len(log) : log[i].id = id
Pos(id) == CHOOSE i \in 1..Len(log) : log[i].id = id
Times(id) == Cardinality({i \in 1..Len(log) : log[i].id = id})
FrameOf(id) == log[Pos(id)].frame
CancelledIds == {c.id : c \in cancelled}
IsNum(a) == a.t = "num"

\* the frame callback of frame f (if there was one) has run to its end
FrameOver(f) ==
  frameNo > f \/ (frameNo = f /\ cur = 0 /\ FrameCb \notin Range(tickList))

\* `wrapped` of defer job d has run in frame f
WrappedRan(d, f) ==
  frameNo > f \/ (frameNo = f /\ WrappedCb(d) \notin Range(tickList))

\* ---------------------------------------------------------------- C1
\* C1: of the read() and write() calls the main program makes in one turn
\* while the scheduler is idle, in any order, no write callback is invoked
\* until every read callback has been invoked, in the next frame
\* (fastdom.js and dom-batch.js).
C1_ReadsBeforeWrites ==
  variant \in {"fastdom", "dombatch"} =>
    \A r, w \in Ids :
      ( /\ born[r].type = "read" /\ born[w].type = "write"
        /\ born[r].by = 0 /\ born[w].by = 0
        /\ born[r].mode = "null" /\ born[w].mode = "null"
        /\ born[r].frame = born[w].frame
        /\ r \notin CancelledIds
        /\ Invoked(w) )
      => /\ Invoked(r) /\ Pos(r) < Pos(w)
         /\ FrameOf(r) = born[r].frame + 1
         /\ FrameOf(w) > born[w].frame

\* write(w); read(r1); read(r2) in one turn: the frame ran r1, r2, w
C1_Witness ==
  /\ variant = "fastdom"
  /\ \E w, r1, r2 \in Ids :
       /\ w < r1 /\ r1 < r2
       /\ born[w].type = "write" /\ born[r1].type = "read" /\ born[r2].type = "read"
       /\ born[w].by = 0 /\ born[r1].by = 0 /\ born[r2].by = 0
       /\ born[w].frame = born[r1].frame /\ born[w].frame = born[r2].frame
       /\ Invoked(w) /\ Invoked(r1) /\ Invoked(r2)
       /\ Pos(r1) < Pos(r2) /\ Pos(r2) < Pos(w)

\* ---------------------------------------------------------------- C2
\* C2: a read or write job whose id was passed to clear() while it was
\* still queued (from the main program or from inside an earlier job of the
\* same frame) never has its callback invoked.
C2_ClearedNeverInvoked ==
  variant = "fastdom" =>
    \A c \in cancelled :
      born[c.id].type \in {"read", "write"} => ~Invoked(c.id)

\* a read job has cancelled a queued write and a later read, and the frame
\* they were queued for is over
C2_Witness ==
  /\ variant = "fastdom"
  /\ \E c1, c2 \in cancelled :
       /\ c1.by # 0 /\ c1.by = c2.by
       /\ born[c1.by].type = "read"
       /\ born[c1.id].type = "write" /\ born[c2.id].type = "read"
       /\ born[c1.id].frame < FrameOf(c1.by) /\ born[c2.id].frame < FrameOf(c1.by)
       /\ FrameOver(FrameOf(c1.by))

\* ---------------------------------------------------------------- C3
\* job j is in a queue when frame f runs its phase: submitted before the
\* frame and not run by an earlier one, or submitted during the frame in a
\* phase that still drains its queue
QueuedFor(j, f) ==
  /\ born[j].type \in {"read", "write"}
  /\ j \notin CancelledIds
  /\ \/ born[j].frame < f /\ ~(Invoked(j) /\ FrameOf(j) < f)
     \/ born[j].frame = f /\ born[j].mode = "reading"
     \/ born[j].frame = f /\ born[j].mode = "writing" /\ born[j].type = "write"

\* C3: with an onError handler registered, when a read job throws during a
\* frame, onError is called exactly once for it and every other read and
\* write job queued for that frame is still invoked in that frame.
C3_FailingReadIsolated ==
  (variant = "fastdom" /\ onError) =>
    \A t \in thrown :
      born[t].type = "read" =>
        /\ Cardinality({i \in 1..Len(errors) : errors[i] = t}) = 1
        /\ \A j \in Ids :
             (QueuedFor(j, FrameOf(t)) /\ FrameOver(FrameOf(t)))
               => (Invoked(j) /\ Times(j) = 1 /\ FrameOf(j) = FrameOf(t))

\* the first read of a frame threw; a second read and a write queued behind
\* it have run in the same frame
C3_Witness ==
  /\ variant = "fastdom" /\ onError
  /\ \E t, r, w \in Ids :
       /\ t \in thrown /\ born[t].type = "read"
       /\ born[r].type = "read" /\ born[w].type = "write"
       /\ Invoked(r) /\ Invoked(w)
       /\ Pos(t) < Pos(r) /\ Pos(r) < Pos(w)
       /\ FrameOf(r) = FrameOf(t) /\ FrameOf(w) = FrameOf(t)
       /\ errors = <<t>>


\* ---------------------------------------------------------------- C4
\* job j was submitted by the callback of a job of the given type
SubmittedInside(j, type) == born[j].by # 0 /\ born[born[j].by].type = type

\* C4: a write submitted from inside a read job of frame F requests no frame
\* callback and is invoked in the writing phase of frame F; a read submitted
\* from inside a write job of frame F is not invoked in frame F, has a frame
\* callback requested for it, and is invoked in the reading phase of the
\* next frame (fastdom.js and dom-batch.js).
C4_PhaseOfNestedJobs ==
  variant \in {"fastdom", "dombatch"} =>
    \A j \in Ids :
      /\ (born[j].type = "write" /\ SubmittedInside(j, "read")) =>
           /\ ~born[j].req
           /\ Invoked(j) => (FrameOf(j) = born[j].frame
                             /\ log[Pos(j)].mode = "writing" /\ Times(j) = 1)
           /\ (FrameOver(born[j].frame) /\ j \notin CancelledIds) => Invoked(j)
      /\ (born[j].type = "read" /\ SubmittedInside(j, "write")) =>
           /\ born[j].req \/ born[j].pending
           /\ Invoked(j) => (FrameOf(j) = born[j].frame + 1
                             /\ log[Pos(j)].mode = "reading" /\ Times(j) = 1)
           /\ (FrameOver(born[j].frame + 1) /\ j \notin CancelledIds) => Invoked(j)

\* in fastdom.js a read job submitted a write and a write job submitted a
\* read that requested a frame; both ran, in frames F and F + 1
C4_FastDomCase ==
  /\ variant = "fastdom"
  /\ \E w, r \in Ids :
       /\ born[w].type = "write" /\ SubmittedInside(w, "read") /\ Invoked(w)
       /\ born[r].type = "read" /\ SubmittedInside(r, "write") /\ Invoked(r)
       /\ born[r].req

\* ------------------------------------------------------------- defer
IsDefer(d) == d \in Ids /\ born[d].type = "defer"
Count(d) == born[d].arg.v

\* ---------------------------------------------------------------- C5
\* C5 as stated: for N >= 0, defer(N, cb) does not invoke cb inside the
\* call nor in the first N frames, and invokes it exactly once in frame N+1.
C5_Original ==
  variant = "fastdom" =>
    \A d \in Ids :
      (IsDefer(d) /\ IsNum(born[d].arg)) =>
        /\ Invoked(d) => (log[Pos(d)].mode = "defer" /\ Times(d) = 1
                          /\ FrameOf(d) = born[d].frame + Count(d) + 1)
        /\ (d \notin CancelledIds /\ WrappedRan(d, born[d].frame + Count(d) + 1))
             => Invoked(d)

\* C5 (amended): defer(N, cb) invokes cb after exactly N frame boundaries:
\* for N = 0 inside the defer call itself, for N >= 1 exactly once in
\* frame N and not before, unless the job was cleared in the meantime.
C5_DeferAfterNFrames ==
  variant = "fastdom" =>
    \A d \in Ids :
      (IsDefer(d) /\ IsNum(born[d].arg)) =>
        /\ Times(d) <= 1
        /\ Invoked(d) =>
             /\ FrameOf(d) = born[d].frame + Count(d)
             /\ log[Pos(d)].mode = (IF Count(d) = 0 THEN "sync" ELSE "defer")
        /\ Count(d) = 0 => Invoked(d)
        /\ (Count(d) >= 1 /\ d \notin CancelledIds
              /\ WrappedRan(d, born[d].frame + Count(d))) => Invoked(d)

\* a defer(0) and a defer(2) have both fired
C5_Witness ==
  /\ variant = "fastdom"
  /\ \E d0, d2 \in Ids :
       /\ IsDefer(d0) /\ born[d0].arg = Num(0) /\ Invoked(d0)
       /\ IsDefer(d2) /\ born[d2].arg = Num(2) /\ Invoked(d2)
       /\ FrameOf(d2) = born[d2].frame + 2

\* ---------------------------------------------------------------- C6
\* e is a chain of frame callbacks registered right after defer job d was
\* created and still alive in the n-th frame after it
ProbeFor(d, e, n) ==
  /\ IsDefer(e) /\ e > d /\ born[e].frame = born[d].frame
  /\ e \notin CancelledIds
  /\ (~IsNum(born[e].arg) \/ Count(e) >= n)

\* C6: for N >= 1, after defer(N, job) the job has not been invoked while
\* fewer than N frames have fired, and it has been invoked by the time a
\* frame callback registered right after the defer call runs in frame N.
C6_DeferredByNthFrame ==
  variant = "fastdom" =>
    \A d \in Ids :
      (IsDefer(d) /\ IsNum(born[d].arg) /\ Count(d) >= 1) =>
        /\ Invoked(d) => frameNo >= born[d].frame + Count(d)
        /\ \A e \in Ids :
             (ProbeFor(d, e, Count(d)) /\ d \notin CancelledIds
                /\ WrappedRan(e, born[d].frame + Count(d))) => Invoked(d)

\* in the second frame after defer(2, job) the later callback has just run
\* and the job has been invoked before it
C6_Witness ==
  /\ variant = "fastdom"
  /\ \E d, e \in Ids :
       /\ IsDefer(d) /\ born[d].arg = Num(2)
       /\ ProbeFor(d, e, 2)
       /\ frameNo = born[d].frame + 2
       /\ WrappedCb(e) \notin Range(tickList)
       /\ Invoked(d) /\ FrameOf(d) = frameNo

\* ---------------------------------------------------------------- C7
NegativeArgs == {a \in DeferArgs : IsNum(a) /\ a.v < 0}

\* C7: defer(frames, cb) with frames < 0 is a no-op: no job is added, lastId
\* is unchanged, no frame callback is requested, nothing is invoked and the
\* call returns undefined.  No state refers to cb afterwards, so it can
\* never be invoked.
C7_NegativeDeferNoOp ==
  [][(\E a \in NegativeArgs : defer(a, FALSE)) =>
       /\ ret' = 0
       /\ UNCHANGED <<lastId, jobs, mode, pending, queue, frames,
                      rafQueue, tickList, born, log>>]_vars

\* the main program called read() and then defer(-1, cb): the id read()
\* returned is gone, nothing else has changed
C7_Witness ==
  /\ variant = "fastdom"
  /\ frameNo = 0 /\ tickList = <<>>
  /\ lastId = 1 /\ born[1].type = "read"
  /\ queue.read = <<1>> /\ rafQueue = <<FrameCb>>
  /\ ret = 0

\* ---------------------------------------------------------------- C8
\* d1 and d2 are defer calls of the same turn with strictly increasing counts
Increasing(d1, d2) ==
  /\ IsDefer(d1) /\ IsDefer(d2) /\ d1 < d2
  /\ born[d1].frame = born[d2].frame
  /\ IsNum(born[d1].arg) /\ IsNum(born[d2].arg)
  /\ Count(d1) < Count(d2)

\* C8 as stated: defer calls of one turn with strictly increasing counts
\* fire in that order, one per frame, the one with count N in frame N+1
\* (defer(0,a); defer(1,b); defer(2,c): a in frame 1, b in 2, c in 3).
C8_Original ==
  variant = "fastdom" =>
    \A d1, d2 \in Ids :
      Increasing(d1, d2) =>
        /\ (Invoked(d2) /\ d1 \notin CancelledIds)
             => (Invoked(d1) /\ FrameOf(d1) < FrameOf(d2))
        /\ Invoked(d1) => FrameOf(d1) = born[d1].frame + Count(d1) + 1
        /\ Invoked(d2) => FrameOf(d2) = born[d2].frame + Count(d2) + 1

\* C8 (amended): defer calls of one turn with strictly increasing counts
\* fire in that order and never two in the same frame, the one with count 0
\* inside its defer call and the one with count N >= 1 in frame N
\* (defer(0,a); defer(1,b); defer(2,c): a at once, b in frame 1, c in 2).
C8_IncreasingDefers ==
  variant = "fastdom" =>
    \A d1, d2 \in Ids :
      Increasing(d1, d2) =>
        /\ (Invoked(d2) /\ d1 \notin CancelledIds)
             => (Invoked(d1) /\ Pos(d1) < Pos(d2) /\ FrameOf(d1) < FrameOf(d2))
        /\ Invoked(d1) => FrameOf(d1) = born[d1].frame + Count(d1)
        /\ Invoked(d2) => FrameOf(d2) = born[d2].frame + Count(d2)
        /\ Invoked(d2) => log[Pos(d2)].mode = "defer"

\* defer(0,a); defer(1,b); defer(2,c) in one turn, all three have fired
C8_Witness ==
  /\ variant = "fastdom"
  /\ \E a \in Ids :
       /\ a + 2 \in Ids
       /\ Increasing(a, a + 1) /\ Increasing(a + 1, a + 2)
       /\ Count(a) = 0 /\ Count(a + 1) = 1 /\ Count(a + 2) = 2
       /\ Invoked(a) /\ Invoked(a + 1) /\ Invoked(a + 2)
       /\ FrameOf(a) = born[a].frame
       /\ FrameOf(a + 1) = born[a].frame + 1
       /\ FrameOf(a + 2) = born[a].frame + 2

\* ---------------------------------------------------------------- C9
\* the frame the tests assign to defer job d: frame N for defer(N, cb), the
\* earliest later frame no earlier defer call holds for defer(cb)
RECURSIVE C9_Slot(_)
C9_Slot(d) ==
  IF IsNum(born[d].arg)
  THEN born[d].frame + Count(d)
  ELSE LET taken == {C9_Slot(e) : e \in {e \in Ids : e < d /\ born[e].type = "defer"}}
           first == born[d].frame + 1
       IN CHOOSE f \in first..(first + Cardinality(taken)) :
            f \notin taken /\ \A g \in first..(f - 1) : g \in taken

\* C9: a defer call given only a callback runs it on the earliest future
\* frame that no other deferred job is assigned to.
C9_CountlessDefer ==
  variant = "fastdom" =>
    \A d \in Ids :
      (IsDefer(d) /\ born[d].arg = FnArg /\ d \notin CancelledIds) =>
        /\ Invoked(d) => FrameOf(d) = C9_Slot(d)
        /\ WrappedRan(d, C9_Slot(d)) => Invoked(d)

\* --------------------------------------------------------------- C10
\* C10: once a sandbox's clear() has been called with no argument, no job
\* that was submitted through the sandbox and was pending at the call is
\* ever invoked, and none of them is left on the sandbox's own lists.
C10_SandboxClearAll ==
  variant = "tasks" =>
    \A c \in cancelled :
      c.all =>
        /\ ~Invoked(c.id)
        /\ c.id \notin Range(sandbox[born[c.id].sb].reads)
        /\ c.id \notin Range(sandbox[born[c.id].sb].writes)

\* --------------------------------------------------------------- C11
\* the tasks of a list that were not submitted through sandbox s
Others(list, s) == SelectSeq(list, LAMBDA t : born[t].sb # s)

\* C11: a sandbox's clear() with no argument leaves every job that was not
\* submitted through that sandbox where it is: the scheduler's lists keep
\* them in the same order, the other sandboxes' lists and the flushes that
\* are scheduled do not change.
C11_SandboxClearLeavesOthers ==
  [][\A s \in Sandboxes :
       Sandbox_clear(s, 0) =>
         /\ Others(reads', s) = Others(reads, s)
         /\ Others(writes', s) = Others(writes, s)
         /\ \A o \in Sandboxes \ {s} : sandbox'[o] = sandbox[o]
         /\ UNCHANGED <<scheduled, scheduledRead, timers, rafQueue, tickList,
                        log, catchFn>>]_vars

\* the main program cleared a sandbox while a read of its own was queued
\* behind a read submitted another way; that read has been invoked since
C11_Witness ==
  /\ variant = "tasks"
  /\ \E c \in cancelled :
       /\ c.all /\ c.by = 0 /\ born[c.id].type = "read"
       /\ ~Invoked(c.id)
       /\ \E t \in Ids :
            /\ t < c.id /\ born[t].type = "read" /\ born[t].sb # born[c.id].sb
            /\ Invoked(t)

\* --------------------------------------------------------------- C12
\* C12: no failure of a read, write or deferred job leaves the function
\* handed to the frame primitive: the only failures that reach a caller are
\* those of a defer(0, cb) made by the main program, which reach that call.
C12_NoFailureReachesHost ==
  variant \in {"fastdom", "dombatch"} =>
    \A e \in escaped : log[Pos(e)].mode = "sync" /\ born[e].by = 0

\* --------------------------------------------------------------- C13
\* a failure handler is registered: onError (fastdom.js), catch (part_000)
HandlerSet == IF variant = "tasks" THEN catchFn ELSE onError

\* C13: the failure of a read or write job is never silently dropped: with
\* a handler registered the handler receives it, without one it is thrown
\* on to the environment (fastdom.js and part_000).  A failure _flushList
\* has caught and not yet passed on is in errs.
C13_FailuresSurface ==
  variant \in {"fastdom", "tasks"} =>
    /\ dropped = {}
    /\ \A t \in thrown \ Range(errs) :
         born[t].type \in {"read", "write"} =>
           IF HandlerSet THEN t \in Range(errors) ELSE t \in escaped

\* --------------------------------------------------------------- C14
\* job id is pending: queued for a frame, or deferred with its frame
\* callback outstanding
PendingJob(id) ==
  \/ id \in Range(queue.read) \cup Range(queue.write)
  \/ WrappedCb(id) \in Range(rafQueue) \cup Range(tickList)

\* C14: clear(id) of an id that is not a pending job (never issued, already
\* executed or already cancelled) changes nothing: not the queues, the
\* registry, mode, pending nor any outstanding frame callback.
C14_ClearOfNonPendingId ==
  [][\A id \in 1..MaxId :
       (clear(id) /\ ~PendingJob(id)) =>
         UNCHANGED <<queue, jobs, mode, pending, rafQueue, tickList, lastId,
                     frames, cur, log, cancelled>>]_vars

\* a read has been cancelled and a deferred job has executed while another
\* job is still queued with its frame callback outstanding: clear of the
\* first two ids is the case
C14_Witness ==
  /\ variant = "fastdom"
  /\ \E c \in cancelled, e, p \in Ids :
       /\ born[c.id].type = "read" /\ c.id \notin DOMAIN jobs /\ ~PendingJob(c.id)
       /\ IsDefer(e) /\ Invoked(e) /\ e \in DOMAIN jobs /\ jobs[e].timer # 0
       /\ ~PendingJob(e)
       /\ p \in Range(queue.read) \cup Range(queue.write)
       /\ FrameCb \in Range(rafQueue)

\* --------------------------------------------------------------- C15
\* C15: a deferred job leaves the registry when it ends: once it has been
\* cleared while pending its callback is not invoked, no frame callback of
\* its chain is outstanding and its id is not in jobs; once its callback
\* has been executed its id is not in jobs.
C15_DeferredJobRemoved ==
  variant = "fastdom" =>
    \A d \in Ids :
      IsDefer(d) =>
        /\ d \in CancelledIds =>
             /\ ~Invoked(d)
             /\ ~PendingJob(d)
             /\ d \notin DOMAIN jobs
        /\ Invoked(d) => d \notin DOMAIN jobs

\* --------------------------------------------------------------- C16
Without(list, t) == SelectSeq(list, LAMBDA x : x # t)

\* C16: when a task is called, the wrapper of a sandboxed task takes exactly
\* that task off its sandbox's lists: every entry of another task stays, so
\* the lists go on naming the sandbox's tasks that are still pending.
C16_WrapperRemovesOwnEntry ==
  [][(variant = "tasks" /\ cur' # 0 /\ cur' # cur) =>
       \A s \in Sandboxes :
         /\ sandbox'[s].reads = Without(sandbox[s].reads, cur')
         /\ sandbox'[s].writes = Without(sandbox[s].writes, cur')]_vars

\* --------------------------------------------------------------- C17
NoDuplicates(list) == \A i, j \in 1..Len(list) : list[i] = list[j] => i = j

\* C17: in fastdom.js every id in the read or write queue is in the
\* registry with the type of its queue, no id is in both queues or twice in
\* one, and no job's callback is invoked more than once.
C17_QueuesAndRegistry ==
  variant = "fastdom" =>
    /\ \A id \in Range(queue.read) : id \in DOMAIN jobs /\ jobs[id].type = "read"
    /\ \A id \in Range(queue.write) : id \in DOMAIN jobs /\ jobs[id].type = "write"
    /\ Range(queue.read) \cap Range(queue.write) = {}
    /\ NoDuplicates(queue.read) /\ NoDuplicates(queue.write)
    /\ \A id \in Ids : Times(id) <= 1

\* inside a read job: it has cleared a queued read while a write is still
\* queued for the frame
C17_Witness ==
  /\ variant = "fastdom"
  /\ cur # 0 /\ born[cur].type = "read" /\ Times(cur) = 1
  /\ queue.write # <<>>
  /\ \E c \in cancelled : c.by = cur /\ born[c.id].type = "read"

\* --------------------------------------------------------------- C18
\* the frame callbacks that have been requested and have not fired yet: a
\* job is called by the frame callback at the head of tickList, which has
\* fired
Outstanding ==
  SelectSeq(rafQueue \o (IF cur # 0 THEN Tail(tickList) ELSE tickList),
            LAMBDA c : c = FrameCb)

\* C18: pending is true exactly when a read/write frame callback has been
\* requested and has not fired, and never more than one is outstanding
\* (fastdom.js and dom-batch.js).
C18_PendingFlag ==
  variant \in {"fastdom", "dombatch"} =>
    /\ Len(Outstanding) <= 1
    /\ pending <=> Len(Outstanding) = 1

\* a write job running in a frame has submitted a read: the frame callback
\* of the next frame is outstanding while this one runs
C18_Witness ==
  /\ variant = "fastdom"
  /\ cur # 0 /\ born[cur].type = "write"
  /\ Head(tickList) = FrameCb
  /\ pending /\ FrameCb \in Range(rafQueue)
  /\ \E r \in Ids : born[r].type = "read" /\ born[r].by = cur /\ born[r].req

\* --------------------------------------------------------------- C19
\* C19: a job submitted from inside a job of its own type runs in the
\* current frame, exactly once: it requests no frame callback, it is invoked
\* in that frame in the phase of its type, a read before every write of the
\* frame, and it has been invoked when the frame is over (fastdom.js and
\* dom-batch.js).
C19_OwnPhaseJobs ==
  variant \in {"fastdom", "dombatch"} =>
    \A j \in Ids :
      (born[j].type \in {"read", "write"} /\ SubmittedInside(j, born[j].type)) =>
        /\ ~born[j].req
        /\ Times(j) <= 1
        /\ Invoked(j) =>
             /\ FrameOf(j) = born[j].frame
             /\ log[Pos(j)].mode = (IF born[j].type = "read" THEN "reading" ELSE "writing")
        /\ (FrameOver(born[j].frame) /\ j \notin CancelledIds) => Invoked(j)
        /\ \A w \in Ids :
             ( /\ born[j].type = "read" /\ j \notin CancelledIds
               /\ born[w].type = "write" /\ Invoked(w) /\ FrameOf(w) = born[j].frame )
             => (Invoked(j) /\ Pos(j) < Pos(w))

\* in fastdom.js a read job submitted a read, which ran in the same frame
\* before the frame's write
C19_FastDomCase ==
  /\ variant = "fastdom"
  /\ \E r, w \in Ids :
       /\ born[r].type = "read" /\ SubmittedInside(r, "read") /\ Invoked(r)
       /\ born[w].type = "write" /\ Invoked(w)
       /\ FrameOf(r) = born[r].frame /\ FrameOf(w) = FrameOf(r)
       /\ Pos(r) < Pos(w)

\* --------------------------------------------------------------- C20
\* C20: when a call of _flush ends, whether or not tasks have thrown and
\* whether or not a catch handler is set, no task that was queued when it
\* began is left in reads or writes: what is left was submitted during this
\* frame, by the tasks it ran.
C20_FlushRunsEverything ==
  [][(variant = "tasks" /\ handler = "_flush" /\ handler' = "none") =>
       \A t \in Range(reads') \cup Range(writes') : born[t].frame = frameNo]_vars

\* with a catch handler set, a read task threw and the write task queued
\* with it has run in the same flush
C20_CatchCase ==
  /\ variant = "tasks" /\ catchFn
  /\ \E r, w \in Ids :
       /\ born[r].type = "read" /\ born[w].type = "write"
       /\ r \in thrown /\ errors = <<r>>
       /\ Invoked(w) /\ Pos(r) < Pos(w) /\ FrameOf(w) = FrameOf(r)
       /\ FrameOf(r) > 0

\* --------------------------------------------------------------- C21
\* What the host and the jobs guarantee: a frame starts while callbacks are
\* registered, the host runs each callback of the frame it dispatches, and
\* a job's callback ends, by returning or by throwing.  Nothing obliges the
\* program to submit or to cancel jobs.
Fairness ==
  /\ WF_vars(Tick)
  /\ WF_vars(_frame)
  /\ WF_vars(frame)
  /\ WF_vars(\E t \in BOOLEAN : wrapped(t))
  /\ WF_vars(fnReturns \/ fnThrows)
  /\ WF_vars(callReturns \/ callThrows)

FairSpecLib == SpecLib /\ Fairness

\* a read or write job that was submitted, was not cancelled and has not
\* had its callback invoked
Awaiting(id) ==
  /\ id \in Ids
  /\ born[id].type \in {"read", "write"}
  /\ id \notin CancelledIds
  /\ ~Invoked(id)

\* C21: when every requested frame callback fires, a read or write job that
\* is submitted and never cancelled has its callback invoked, in fastdom.js
\* and in dom-batch.js, also after a frame in which a job threw.  (The model
\* dispatches MaxFrame frames; a job still waiting when the last one has
\* been dispatched is not held against the claim.)
C21_EveryJobRuns ==
  \A id \in 1..MaxId :
    (Awaiting(id) /\ frameNo < MaxFrame) ~> (~Awaiting(id) \/ frameNo = MaxFrame)

\* the state the claim gives as the reason: between frames the phase is
\* none, and a job in a queue has a frame callback outstanding
C21_QuiescentState ==
  (variant \in {"fastdom", "dombatch"} /\ cur = 0 /\ tickList = <<>>) =>
    /\ mode = "null"
    /\ (\E id \in 1..MaxId : Awaiting(id)) => Len(Outstanding) = 1

====
